---- MODULE Spec2Model ----
(***************************************************************************)
(* pywr.parameters.control_curves.ControlCurveParameter: the piecewise     *)
(* control-curve parameter.  One parameter object is built (directly or    *)
(* from a declarative node), attached to a node, and then evaluated,       *)
(* updated and queried for its bounds while the storage volumes change.    *)
(*                                                                         *)
(* Fill fractions and control-curve positions are points of the scale      *)
(* 0..MaxLevel (0 = empty, MaxLevel = full); only their order matters to   *)
(* the code.  Control curves and nested output parameters are constant     *)
(* parameters; one scenario and one timestep are evaluated, as in the      *)
(* tests.  Python's None is the empty tuple, a present value x is <<x>>.   *)
(***************************************************************************)
EXTENDS Integers, Sequences, FiniteSets, TLC

VARIABLES self, current_pc, call, ret, built, updated

vars == <<self, current_pc, call, ret, built, updated>>

MaxN == 2
MaxLevel == 1

Levels == 0..MaxLevel
Scenarios == {0}
Timesteps == {1}

None == <<>>
Some(x) == <<x>>
Get(o) == o[1]

Raise(e) == [exc |-> e]
Return(v) == [exc |-> "", val |-> v]

----------------------------------------------------------------------------
(* The nodes of the model and the sub-parameters a control curve is made of *)

StorageNodes == {"Storage", "Reservoir"}
Nodes == StorageNodes \cup {"Link"}

ConstantParameter(v) == [type |-> "constant", value |-> v]

Parameter_value(p, ts, scenario_index) == p.value

----------------------------------------------------------------------------
(* ControlCurveParameter.__init__ *)

np_arange_from_one(n) == [k \in 1..n |-> k]

np_arange(n) == [k \in 1..n |-> k - 1]

BaseControlCurveParameter(control_curves, storage_node) ==
    [control_curves |-> control_curves, storage_node |-> storage_node, node |-> None]

init_outputs_parameters_first(nvalues, values, parameters) ==
    IF parameters # None THEN
        IF Len(Get(parameters)) # nvalues THEN Raise("ValueError")
        ELSE Return([values |-> None, parameters |-> Some(Get(parameters))])
    ELSE IF values # None THEN
        IF Len(Get(values)) # nvalues THEN Raise("ValueError")
        ELSE Return([values |-> Some(Get(values)), parameters |-> None])
    ELSE Return([values |-> Some(np_arange(nvalues)), parameters |-> None])

init_outputs_unchecked_parameters(nvalues, values, parameters) ==
    IF values # None THEN
        IF Len(Get(values)) # nvalues THEN Raise("ValueError")
        ELSE Return([values |-> Some(Get(values)), parameters |-> None])
    ELSE IF parameters # None THEN
        Return([values |-> None, parameters |-> Some(Get(parameters))])
    ELSE Return([values |-> Some(np_arange(nvalues)), parameters |-> None])

init_outputs(nvalues, values, parameters) ==
    IF values # None THEN
        IF Len(Get(values)) # nvalues THEN Raise("ValueError")
        ELSE Return([values |-> Some(Get(values)), parameters |-> None])
    ELSE IF parameters # None THEN
        IF Len(Get(parameters)) # nvalues THEN Raise("ValueError")
        ELSE Return([values |-> None, parameters |-> Some(Get(parameters))])
    ELSE Return([values |-> Some(np_arange(nvalues)), parameters |-> None])

init_bounds_unchecked_length(self_values, nvalues, bounds) ==
    IF bounds # None THEN
        IF self_values = None THEN Raise("ValueError")
        ELSE Return(Some(Get(bounds)))
    ELSE Return(None)

init_bounds(self_values, nvalues, bounds) ==
    IF bounds # None THEN
        IF self_values = None THEN Raise("ValueError")
        ELSE IF Len(Get(bounds)) # nvalues THEN Raise("ValueError")
        ELSE Return(Some(Get(bounds)))
    ELSE Return(None)

ControlCurveParameter(control_curves, values, parameters, storage_node, upper_bounds, lower_bounds) ==
    LET base == BaseControlCurveParameter(control_curves, storage_node)
        nvalues == Len(base.control_curves) + 1
        outputs == init_outputs(nvalues, values, parameters)
    IN  IF outputs.exc # "" THEN outputs
        ELSE LET ub == init_bounds(outputs.val.values, nvalues, upper_bounds)
             IN  IF ub.exc # "" THEN ub
                 ELSE LET lb == init_bounds(outputs.val.values, nvalues, lower_bounds)
                      IN  IF lb.exc # "" THEN lb
                          ELSE Return([control_curves |-> base.control_curves,
                                       storage_node |-> base.storage_node,
                                       node |-> base.node,
                                       size |-> nvalues,
                                       values |-> outputs.val.values,
                                       parameters |-> outputs.val.parameters,
                                       _upper_bounds |-> ub.val,
                                       _lower_bounds |-> lb.val])

----------------------------------------------------------------------------
(* ControlCurveParameter.value *)

getitem(a, k) ==
    IF k >= 0 THEN (IF k < Len(a) THEN Return(a[k + 1]) ELSE Raise("IndexError"))
    ELSE (IF Len(a) + k >= 0 THEN Return(a[Len(a) + k + 1]) ELSE Raise("IndexError"))

resolve_node_attached_first(obj) ==
    IF obj.node = None THEN obj.storage_node ELSE obj.node

resolve_node(obj) ==
    IF obj.storage_node = None THEN obj.node ELSE obj.storage_node

level_reached(pc, cc) == pc >= cc

RECURSIVE scan(_, _, _, _, _, _, _)
scan(obj, pc, node, ts, i, j, reads) ==
    IF j >= Len(obj.control_curves) THEN
        [reads |-> reads,
         out |-> IF obj.parameters # None
                 THEN Return(Parameter_value(
                          Get(obj.parameters)[Len(Get(obj.parameters))], ts, i))
                 ELSE getitem(Get(obj.values), -1)]
    ELSE
        LET cc == Parameter_value(obj.control_curves[j + 1], ts, i)
        IN  IF node = None \/ Get(node) \notin StorageNodes THEN
                [reads |-> reads, out |-> Raise("AttributeError")]
            ELSE IF level_reached(pc[Get(node)][i], cc) THEN
                [reads |-> reads \cup {Get(node)},
                 out |-> IF obj.parameters # None
                         THEN Return(Parameter_value(Get(obj.parameters)[j + 1], ts, i))
                         ELSE getitem(Get(obj.values), j)]
            ELSE scan(obj, pc, node, ts, i, j + 1, reads \cup {Get(node)})

value(obj, pc, ts, scenario_index) ==
    scan(obj, pc, resolve_node(obj), ts, scenario_index, 0, {})

----------------------------------------------------------------------------
(* ControlCurveParameter.update, lower_bounds, upper_bounds *)

update_dropped(obj, values) == obj

update(obj, values) == [obj EXCEPT !.values = Some(values)]

lower_bounds(obj) == obj._lower_bounds

upper_bounds(obj) == obj._upper_bounds

----------------------------------------------------------------------------
(* ControlCurveParameter.load and the loaders it calls.  A declarative node *)
(* is a function from field names to values; a bare numeric literal v is    *)
(* [number |-> v], a nested parameter node has a "type" field.              *)

load_parameter(model, pdata) ==
    IF "number" \in DOMAIN pdata THEN ConstantParameter(pdata.number)
    ELSE ConstantParameter(pdata.values)

load_parameter_values(model, data) == data.values

_load_control_curves(model, data) ==
    IF "control_curves" \in DOMAIN data THEN
        Return([k \in 1..Len(data.control_curves) |->
                    load_parameter(model, data.control_curves[k])])
    ELSE IF "control_curve" \in DOMAIN data THEN
        Return(<<load_parameter(model, data.control_curve)>>)
    ELSE Raise("ConfigurationError")

_load_storage_node(model, data) ==
    IF "storage_node" \in DOMAIN data THEN
        IF data.storage_node \in model THEN Return(Some(data.storage_node))
        ELSE Raise("NodeNotFound")
    ELSE Return(None)

load_parameters_first(model, data) ==
    LET control_curves == _load_control_curves(model, data)
        storage_node == _load_storage_node(model, data)
        parameters == IF "parameters" \in DOMAIN data
                      THEN Some([k \in 1..Len(data.parameters) |->
                                     load_parameter(model, data.parameters[k])])
                      ELSE None
        values == IF "parameters" \notin DOMAIN data /\ "values" \in DOMAIN data
                  THEN Some(load_parameter_values(model, data))
                  ELSE None
    IN  IF control_curves.exc # "" THEN control_curves
        ELSE IF storage_node.exc # "" THEN storage_node
        ELSE ControlCurveParameter(control_curves.val, values, parameters,
                                   storage_node.val, None, None)

load(model, data) ==
    LET control_curves == _load_control_curves(model, data)
        storage_node == _load_storage_node(model, data)
        values == IF "values" \in DOMAIN data
                  THEN Some(load_parameter_values(model, data))
                  ELSE None
        parameters == IF "values" \notin DOMAIN data /\ "parameters" \in DOMAIN data
                      THEN Some([k \in 1..Len(data.parameters) |->
                                     load_parameter(model, data.parameters[k])])
                      ELSE None
    IN  IF control_curves.exc # "" THEN control_curves
        ELSE IF storage_node.exc # "" THEN storage_node
        ELSE ControlCurveParameter(control_curves.val, values, parameters,
                                   storage_node.val, None, None)

----------------------------------------------------------------------------
(* The arguments the operations are called with *)

Seqs(S, lo, hi) == UNION {[1..n -> S] : n \in lo..hi}

ThresholdParameters == {ConstantParameter(v) : v \in Levels}

ControlCurveArgs == Seqs(ThresholdParameters, 0, MaxN)

Ramp(n, b) == [k \in 1..n |-> b + k]

ValuesArgs == {None} \cup {Some(Ramp(n, 10)) : n \in 0..(MaxN + 2)}

ParametersArgs ==
    {None} \cup {Some([k \in 1..n |-> ConstantParameter(30 + k)]) : n \in 0..(MaxN + 2)}

StorageNodeArgs == {None} \cup {Some(n) : n \in StorageNodes}

BoundsArgs(b) == {None} \cup {Some([k \in 1..n |-> b]) : n \in 1..(MaxN + 2)}

UpdateArgs == {Ramp(n, 20) : n \in 0..(MaxN + 2)}

NoFields == [k \in {} |-> k]

ThresholdNodes ==
    {[number |-> v] : v \in Levels} \cup {[type |-> "constant", values |-> v] : v \in Levels}

ControlCurveFields ==
    {NoFields} \cup {"control_curve" :> e : e \in ThresholdNodes}
        \cup {"control_curves" :> s : s \in Seqs(ThresholdNodes, 0, MaxN)}

ValuesFields == {NoFields} \cup {"values" :> Ramp(n, 10) : n \in 0..(MaxN + 2)}

ParametersFields ==
    {NoFields} \cup {"parameters" :> [k \in 1..n |-> [type |-> "constant", values |-> 30 + k]] :
                        n \in 0..(MaxN + 2)}

StorageNodeFields ==
    {NoFields} \cup {"storage_node" :> n : n \in StorageNodes \cup {"Missing"}}

DataArgs ==
    {("type" :> "controlcurve") @@ c @@ v @@ p @@ s :
        c \in ControlCurveFields, v \in ValuesFields,
        p \in ParametersFields, s \in StorageNodeFields}

----------------------------------------------------------------------------
(* The state machine *)

Init ==
    /\ self = None
    /\ current_pc = [n \in StorageNodes |-> [i \in Scenarios |-> 0]]
    /\ call = [op |-> "none"]
    /\ ret = Return(None)
    /\ built = [outputs |-> "none"]
    /\ updated = None

Construct ==
    /\ call.op = "none"
    /\ \E control_curves \in ControlCurveArgs, values \in ValuesArgs,
          parameters \in ParametersArgs, storage_node \in StorageNodeArgs,
          ub \in BoundsArgs(100), lb \in BoundsArgs(0) :
          LET r == ControlCurveParameter(control_curves, values, parameters,
                                         storage_node, ub, lb)
          IN  /\ call' = [op |-> "init", control_curves |-> control_curves,
                          values |-> values, parameters |-> parameters,
                          storage_node |-> storage_node,
                          upper_bounds |-> ub, lower_bounds |-> lb]
              /\ ret' = IF r.exc = "" THEN Return(None) ELSE r
              /\ self' = IF r.exc = "" THEN Some(r.val) ELSE None
              /\ built' = IF r.exc # "" THEN [outputs |-> "none"]
                          ELSE [outputs |-> IF values # None THEN "values"
                                            ELSE IF parameters # None THEN "parameters"
                                            ELSE "default",
                                upper_bounds |-> ub, lower_bounds |-> lb]
    /\ UNCHANGED <<current_pc, updated>>

Load ==
    /\ call.op = "none"
    /\ \E data \in DataArgs :
          LET r == load(Nodes, data)
          IN  /\ call' = [op |-> "load", data |-> data]
              /\ ret' = IF r.exc = "" THEN Return(None) ELSE r
              /\ self' = IF r.exc = "" THEN Some(r.val) ELSE None
              /\ built' = IF r.exc # "" THEN [outputs |-> "none"]
                          ELSE [outputs |-> IF "values" \in DOMAIN data THEN "values"
                                            ELSE IF "parameters" \in DOMAIN data
                                                 THEN "parameters"
                                            ELSE "default",
                                upper_bounds |-> None, lower_bounds |-> None]
    /\ UNCHANGED <<current_pc, updated>>

Attach ==
    /\ self # None
    /\ \E n \in Nodes :
          /\ self' = Some([Get(self) EXCEPT !.node = Some(n)])
          /\ call' = [op |-> "attach"]
    /\ ret' = Return(None)
    /\ UNCHANGED <<current_pc, built, updated>>

Reset ==
    /\ self # None
    /\ \E n \in StorageNodes, i \in Scenarios, pc \in Levels :
          /\ current_pc' = [current_pc EXCEPT ![n][i] = pc]
          /\ call' = [op |-> "reset"]
    /\ ret' = Return(None)
    /\ UNCHANGED <<self, built, updated>>

Evaluate ==
    /\ self # None
    /\ \E ts \in Timesteps, scenario_index \in Scenarios :
          LET r == value(Get(self), current_pc, ts, scenario_index)
          IN  /\ call' = [op |-> "value", ts |-> ts, scenario_index |-> scenario_index,
                          reads |-> r.reads]
              /\ ret' = r.out
    /\ UNCHANGED <<self, current_pc, built, updated>>

Update ==
    /\ self # None
    /\ \E values \in UpdateArgs :
          /\ self' = Some(update(Get(self), values))
          /\ call' = [op |-> "update", values |-> values]
          /\ updated' = Some(values)
    /\ ret' = Return(None)
    /\ UNCHANGED <<current_pc, built>>

LowerBounds ==
    /\ self # None
    /\ call' = [op |-> "lower_bounds"]
    /\ ret' = Return(lower_bounds(Get(self)))
    /\ UNCHANGED <<self, current_pc, built, updated>>

UpperBounds ==
    /\ self # None
    /\ call' = [op |-> "upper_bounds"]
    /\ ret' = Return(upper_bounds(Get(self)))
    /\ UNCHANGED <<self, current_pc, built, updated>>

Next ==
    \/ Construct
    \/ Load
    \/ Attach
    \/ Reset
    \/ Evaluate
    \/ Update
    \/ LowerBounds
    \/ UpperBounds

Spec == Init /\ [][Next]_vars

----------------------------------------------------------------------------
(* Vocabulary of the properties *)

Obj == Get(self)

NArg == Len(call.control_curves)

IsInit == call.op = "init"

Built == self # None

Failed == ret.exc # "" /\ self = None

BothGiven == call.values # None /\ call.parameters # None

BoundGiven == call.upper_bounds # None \/ call.lower_bounds # None

BoundsFit ==
    \A b \in {call.upper_bounds, call.lower_bounds} : b = None \/ Len(Get(b)) = NArg + 1

Populated(obj) == IF obj.parameters # None THEN Get(obj.parameters) ELSE Get(obj.values)

ExpectedNode(obj) == IF obj.storage_node # None THEN obj.storage_node ELSE obj.node

HasFill(obj) == ExpectedNode(obj) # None /\ Get(ExpectedNode(obj)) \in StorageNodes

Fill(obj, i) == current_pc[Get(ExpectedNode(obj))][i]

Band(cc, f, ts, i) ==
    LET hits == {j \in 0..(Len(cc) - 1) : f >= Parameter_value(cc[j + 1], ts, i)}
    IN  IF hits = {} THEN Len(cc) ELSE CHOOSE j \in hits : \A k \in hits : j <= k

BandsBelow(cc, f, ts, i) ==
    Cardinality({k \in 1..Len(cc) : \A m \in 1..k : f < Parameter_value(cc[m], ts, i)})

BandOutput(obj, j, ts, i) ==
    IF obj.parameters # None THEN Return(Parameter_value(Get(obj.parameters)[j + 1], ts, i))
    ELSE IF j + 1 \in DOMAIN Get(obj.values) THEN Return(Get(obj.values)[j + 1])
    ELSE Raise("NoSuchBand")

Evaluated == call.op = "value" /\ HasFill(Obj)

SelectedBand == Band(Obj.control_curves, Fill(Obj, call.scenario_index),
                     call.ts, call.scenario_index)

----------------------------------------------------------------------------
(* C1: every Evaluate of a parameter whose storage node is resolved returns *)
(* the output of band j (values[j] in scalar mode, parameters[j] evaluated  *)
(* in nested mode), j being the smallest index whose threshold the fill     *)
(* fraction reaches (f >= threshold[j]) and N when it reaches none.         *)
C1_EvaluateSelectsBand ==
    Evaluated => ret = BandOutput(Obj, SelectedBand, call.ts, call.scenario_index)

(* C1 restricted to parameters whose scalar outputs still number N+1: the   *)
(* selection itself is as claimed; only an Update of another length breaks  *)
(* it (see C5).                                                             *)
C1_HoldsWhileWellFormed ==
    Evaluated /\ Len(Populated(Obj)) = Obj.size
        => ret = BandOutput(Obj, SelectedBand, call.ts, call.scenario_index)

C4_UpdateRejectedWhenNested ==
    call.op = "update" /\ built.outputs = "parameters" =>
        ret.exc # "" /\ Obj.values = None

(* C5: in every state after a successful Construct, whatever Update and     *)
(* Evaluate calls followed, the populated output sequence has exactly       *)
(* len(thresholds) + 1 entries.                                             *)
C5_OutputLengthInvariant ==
    Built => Len(Populated(Obj)) = Len(Obj.control_curves) + 1

(* C6 as stated: bounds supplied without the values argument always fail,   *)
(* bounds of a length other than N+1 fail, values and bounds of length N+1  *)
(* succeed, and the accessors return the supplied arrays (None for a bound  *)
(* that was not configured).                                                *)
C6_BoundsNeedValuesArgument ==
    /\ IsInit =>
        /\ BoundGiven /\ call.values = None => Failed
        /\ ~BoundsFit => Failed
        /\ (call.values # None /\ Len(Get(call.values)) = NArg + 1 /\ BoundsFit)
              => Built
    /\ call.op = "lower_bounds" => ret = Return(built.lower_bounds)
    /\ call.op = "upper_bounds" => ret = Return(built.upper_bounds)

(* C6 amended: bounds fail when the parameter is in nested mode (values     *)
(* absent, parameters supplied) and when a bounds array has a length other  *)
(* than N+1; with values of length N+1, or with neither values nor          *)
(* parameters (default outputs 0..N), bounds of length N+1 are accepted;    *)
(* the accessors return the supplied arrays, None for an unconfigured one.  *)
C6_BoundsNeedScalarOutputs ==
    /\ IsInit =>
        /\ (BoundGiven /\ call.values = None /\ call.parameters # None) => Failed
        /\ ~BoundsFit => Failed
        /\ (/\ BoundsFit
            /\ \/ (call.values # None /\ Len(Get(call.values)) = NArg + 1)
               \/ (call.values = None /\ call.parameters = None))
              => /\ Built
                 /\ lower_bounds(Obj) = call.lower_bounds
                 /\ upper_bounds(Obj) = call.upper_bounds
    /\ call.op = "lower_bounds" => ret = Return(built.lower_bounds)
    /\ call.op = "upper_bounds" => ret = Return(built.upper_bounds)

C6_Witness ==
    /\ call.op = "upper_bounds"
    /\ built.outputs = "default"
    /\ updated # None
    /\ ret = Return(Some(<<100, 100, 100>>))
    /\ lower_bounds(Obj) = None

(* C7: Construct with neither values nor parameters yields the scalar       *)
(* outputs 0, 1, ..., N, and Evaluate of such a parameter returns the index *)
(* of the selected band: 0 at or above the first threshold, one more for    *)
(* each further threshold the fill fraction is below.                       *)
C7_DefaultIsBandIndex ==
    /\ (IsInit /\ call.values = None /\ call.parameters = None /\ Built)
          => /\ Obj.values = Some([k \in 1..(NArg + 1) |-> k - 1])
             /\ Obj.parameters = None
    /\ (Evaluated /\ built.outputs = "default" /\ updated = None)
          => ret = Return(BandsBelow(Obj.control_curves, Fill(Obj, call.scenario_index),
                                     call.ts, call.scenario_index))

C7_Witness ==
    /\ Evaluated
    /\ built.outputs = "default"
    /\ updated = None
    /\ Len(Obj.control_curves) = 2
    /\ ret = Return(1)

(* C8 as stated: every Evaluate reads the fill fraction of exactly one      *)
(* storage node, the explicit storage node if one was given and else the    *)
(* node the parameter is attached to at the time of the call, and its       *)
(* result depends on no other fill fraction.                                *)
ReadsOnly(nodes) ==
    /\ call.reads = nodes
    /\ \A pc \in [StorageNodes -> [Scenarios -> Levels]] :
          pc[Get(ExpectedNode(Obj))][call.scenario_index] = Fill(Obj, call.scenario_index)
             => value(Obj, pc, call.ts, call.scenario_index).out = ret

DirectControlCurves(data) ==
    IF "control_curves" \in DOMAIN data
    THEN [k \in 1..Len(data.control_curves) |-> load_parameter(Nodes, data.control_curves[k])]
    ELSE <<load_parameter(Nodes, data.control_curve)>>

DirectParameters(data) ==
    [k \in 1..Len(data.parameters) |-> ConstantParameter(data.parameters[k].values)]

Direct(data) ==
    ControlCurveParameter(
        DirectControlCurves(data),
        IF "values" \in DOMAIN data THEN Some(data.values) ELSE None,
        IF "values" \notin DOMAIN data /\ "parameters" \in DOMAIN data
            THEN Some(DirectParameters(data)) ELSE None,
        IF "storage_node" \in DOMAIN data THEN Some(data.storage_node) ELSE None,
        None, None)

Attached(obj, node) == [obj EXCEPT !.node = node]

C9_LoadEqualsConstruct ==
    (call.op = "load" /\ Built) =>
        LET data == call.data
            n == Len(Obj.control_curves)
        IN  /\ "values" \in DOMAIN data
                  => Obj.values = Some(data.values) /\ Obj.parameters = None
            /\ ("values" \notin DOMAIN data /\ "parameters" \in DOMAIN data)
                  => Obj.values = None /\ Obj.parameters = Some(DirectParameters(data))
            /\ ("values" \notin DOMAIN data /\ "parameters" \notin DOMAIN data)
                  => Obj.values = Some([k \in 1..(n + 1) |-> k - 1])
            /\ Obj.storage_node = IF "storage_node" \in DOMAIN data
                                  THEN Some(data.storage_node) ELSE None
            /\ Direct(data).exc = ""
            /\ \A node \in {None} \cup {Some(m) : m \in Nodes},
                  pc \in [StorageNodes -> [Scenarios -> Levels]],
                  ts \in Timesteps, i \in Scenarios :
                  value(Attached(Obj, node), pc, ts, i)
                      = value(Attached(Direct(data).val, node), pc, ts, i)

C9_Witness ==
    /\ call.op = "load"
    /\ Built
    /\ "values" \notin DOMAIN call.data
    /\ "parameters" \in DOMAIN call.data
    /\ "storage_node" \in DOMAIN call.data
    /\ Len(Obj.control_curves) = 2

(* C10: in scalar mode, once Update(v) was called with v of length N+1,     *)
(* every Evaluate up to the next Update returns v[j] for the selected band  *)
(* j; Update changes neither the thresholds, the storage reference nor the  *)
(* bounds.                                                                  *)
C10_AfterUpdate ==
    (/\ Evaluated
     /\ Obj.parameters = None
     /\ updated # None
     /\ Len(Get(updated)) = Len(Obj.control_curves) + 1)
        => ret = Return(Get(updated)[SelectedBand + 1])

C10_UpdateStep ==
    call'.op = "update" =>
        /\ self' # None
        /\ Get(self').control_curves = Obj.control_curves
        /\ Get(self').storage_node = Obj.storage_node
        /\ Get(self').node = Obj.node
        /\ lower_bounds(Get(self')) = lower_bounds(Obj)
        /\ upper_bounds(Get(self')) = upper_bounds(Obj)

C10_UpdateTakesEffect == []C10_AfterUpdate /\ [][C10_UpdateStep]_vars

C10_Witness ==
    /\ Evaluated
    /\ built.outputs = "values"
    /\ updated = Some(<<21, 22, 23>>)
    /\ Obj._upper_bounds # None
    /\ ret = Return(22)
====
